---- MODULE Spec2Model ----
(***************************************************************************)
(* Workflow orchestration engine of the R assistant: the WorkflowEngine    *)
(* (services/langgraph_workflow.py), its four agents                       *)
(* (services/langgraph_agents.py), the LangGraphService operations that    *)
(* front it (services/langgraph_service.py) and the streaming views that   *)
(* call the engine directly (core/streaming_views.py).                     *)
(*                                                                         *)
(* One request is in flight at a time.  A graph node is one step; an agent *)
(* node is two steps, split at its only suspension point, the awaited      *)
(* backend call.                                                           *)
(***************************************************************************)
EXTENDS Integers, Sequences, FiniteSets, TLC

VARIABLES
    apiKey,       \* settings.DEEPSEEK_API_KEY: "missing", "placeholder", "valid"
    pc,           \* "idle", "graph", "await", "post", "done"
    req,          \* the request being served: entry point and arguments
    state,        \* the WorkflowState record threaded through the graph
    built,        \* TRUE once execute_workflow constructed initial_state
    node,         \* the graph node to run next (or being awaited)
    stagesRun,    \* node functions entered so far, in order
    raisedIn,     \* node whose exception escaped ainvoke, or "none"
    calls,        \* backend calls issued (llm.ainvoke) for this request
    outstanding,  \* backend calls issued and not yet resolved
    callLog,      \* the resolved backend calls: issuing node and outcome
    availChecks,  \* evaluations of _check_api_availability for this request
    clock,        \* datetime.now(), in ticks since the request arrived
    ret,          \* what execute_workflow gave its caller
    svc,          \* what the service operation / view gave its caller
    earlier,      \* a demo response some earlier request was answered with
    execs,        \* two concurrent execute_workflow calls: position and record
    lists,        \* the history list objects: the callers' and the fresh ones
    memory,       \* WorkflowEngine.memory: the saved state of each thread_id
    alone,        \* the record each of the two calls builds when run by itself
    submitted,    \* the text RCodeAnalyzer.analyze was last called with
    analysis      \* what that call of analyze gave its caller

\* the variables of the two-call specification
pairVars == <<execs, lists, memory, alone>>

\* the variables of the code analyzer's specification
analyzerVars == <<submitted, analysis>>

vars == <<apiKey, pc, req, state, built, node, stagesRun, raisedIn, calls,
          outstanding, callLog, availChecks, clock, ret, svc, earlier,
          execs, lists, memory, alone, submitted, analysis>>

----------------------------------------------------------------------------
(* Bounds *)

MaxClock == 2       \* ticks the clock may advance within one request
MaxHistory == 15    \* turns in a caller-supplied conversation history
MaxCodeLen == 3     \* lexemes in an analysed text, every text that short
MaxLines == 14      \* lines in an analysed text that repeats one line
MaxOperators == 21  \* logical operators in an analysed text of one line

(* Program constants *)

MinReplyLen == 50   \* _context_enhancement_node: len(ai_response) < 50
MinCodeLen == 10    \* _validate_solutions_node: len(solution.code) < 10
HistoryWindow == 10 \* TalkView.post: [:10] of the stored turns, newest first
MaxLineLength == 100      \* _detect_quality_issues: len(line) > 100
MinCommentedLines == 10   \* _detect_quality_issues: total_lines > 10
HighComplexity == 20      \* _calculate_complexity: complexity > 20
MediumComplexity == 10    \* _calculate_complexity: complexity > 10
DeepNesting == 4          \* _generate_recommendations: max_nesting_depth > 4

----------------------------------------------------------------------------
(* Text values.  A Python str is a sequence of characters; None is kept    *)
(* apart from the empty string because the code tells them apart.          *)

NoneText == [isNone |-> TRUE, chars |-> <<>>]

Txt(s) == [isNone |-> FALSE, chars |-> s]

\* Characters of a literal written in the source: a literal is kept as one
\* element and carries the length the source text has.
LitLen(e) ==
    CASE e = "<reply_below_limit>" -> MinReplyLen - 1
      [] e = "<reply_at_limit>"    -> MinReplyLen
      [] e = "<cannot_reply>"      -> 11
      [] e = "<code1_head>"        -> 9
      [] e = "<code1_tail>"        -> 96
      [] e = "<code2>"             -> 202
      [] e = "<code3>"             -> 209
      [] e = "<line_at_limit>"     -> MaxLineLength
      [] e = "<line_over_limit>"   -> MaxLineLength + 1
      [] e = "function"            -> 8
      [] e = "repeat"              -> 6
      [] e \in {"myVar", "while"}  -> 5
      [] e = "1234"                -> 4
      [] e \in {"MAX", "for"}      -> 3
      [] e \in {"if", "<-", "&&", "||"} -> 2
      [] OTHER                     -> 1

RECURSIVE SeqLen(_)
SeqLen(s) == IF s = <<>> THEN 0 ELSE LitLen(Head(s)) + SeqLen(Tail(s))

\* len(x) of a str
TextLen(t) == SeqLen(t.chars)

\* bool(x) of an Optional[str]
Truthy(t) == ~t.isNone /\ t.chars # <<>>

\* str(x) as an f-string formats it
Str(t) == IF t.isNone THEN <<"N", "o", "n", "e">> ELSE t.chars

\* "kw in s" for a str s
HasSub(s, kw) ==
    \E i \in 1..(Len(s) - Len(kw) + 1) : SubSeq(s, i, i + Len(kw) - 1) = kw

NoTime == -1        \* end_time = None / key absent

Ticks == {clock, IF clock < MaxClock THEN clock + 1 ELSE clock}

Step(now, msg) == [ts |-> now, msg |-> msg]

----------------------------------------------------------------------------
(* Inputs *)

Inputs == {NoneText, Txt(<<>>), Txt(<<"P", "l", "o", "t">>)}

\* Message(role=..., content=..., timestamp=...)
Turn(role, content, timestamp) ==
    [role |-> role, content |-> content, timestamp |-> timestamp]

\* the instant of the k-th most recent earlier turn: before the request
\* arrived (clock 0) and apart from NoTime
Past(k) == 0 - 1 - k

\* the k-th most recent earlier turn; its text is k characters long, so that
\* no two turns of a history carry the same text
PastTurn(k) ==
    Turn(IF k % 2 = 1 THEN "assistant" ELSE "user",
         Txt([j \in 1..k |-> "h"]), Past(k))

\* a stored conversation of n turns, oldest first
Ascending(n) == [i \in 1..n |-> PastTurn(n - i + 1)]

\* the same conversation as a "-timestamp" query returns it, newest first
Descending(n) == [i \in 1..n |-> PastTurn(i)]

\* no earlier turn, one, or a conversation of MaxHistory turns in either order
Histories == {<<>>, Ascending(1), Ascending(MaxHistory), Descending(MaxHistory)}

\* response.content of the backend: missing, empty, short, long enough
Replies == {NoneText, Txt(<<>>), Txt(<<"<reply_below_limit>">>),
            Txt(<<"<reply_at_limit>">>)}

KeyStates == {"missing", "placeholder", "valid"}

----------------------------------------------------------------------------
(* WorkflowEngine._build_workflows: the three compiled graphs *)

Edges ==
    [explain |-> {<<"START", "analyze_code">>,
                  <<"analyze_code", "explain_code">>,
                  <<"explain_code", "finalize">>,
                  <<"finalize", "END">>},
     answer  |-> {<<"START", "analyze_problem">>,
                  <<"analyze_problem", "solve_problem">>,
                  <<"solve_problem", "validate_solutions">>,
                  <<"validate_solutions", "finalize">>,
                  <<"finalize", "END">>},
     talk    |-> {<<"START", "conversation">>,
                  <<"conversation", "context_enhancement">>,
                  <<"context_enhancement", "finalize">>,
                  <<"finalize", "END">>}]

workflows == DOMAIN Edges

NextNodeSkippingOnError(wf, n) ==
    IF n \notin {"START", "finalize"} /\ state'.errors # <<>> THEN "finalize"
    ELSE CHOOSE m \in {e[2] : e \in Edges[wf]} : <<n, m>> \in Edges[wf]

\* the node the graph runtime runs after n
NextNode(wf, n) == CHOOSE m \in {e[2] : e \in Edges[wf]} : <<n, m>> \in Edges[wf]

----------------------------------------------------------------------------
(* execute_workflow: the initial state *)

NoAnalysis == [isNone |-> TRUE, analysis_result |-> NoneText]

BlankState ==
    [request_type |-> "none", user_input |-> NoneText,
     original_code |-> NoneText, problem_description |-> NoneText,
     conversation_history |-> <<>>, ai_response |-> NoneText,
     code_solutions |-> <<>>, explanation_result |-> NoneText,
     code_analysis |-> NoAnalysis, processing_steps |-> <<>>,
     start_time |-> NoTime, end_time |-> NoTime,
     errors |-> <<>>, warnings |-> <<>>, workflow_complete |-> FALSE,
     problem_type |-> "unset", status |-> "unset", summary |-> "unset",
     processing_time |-> NoTime]

InitialState(request_type, user_input, history, now) ==
    [BlankState EXCEPT
        !.request_type = request_type,
        !.user_input = user_input,
        !.original_code = IF request_type = "explain" THEN user_input ELSE NoneText,
        !.problem_description = IF request_type = "answer" THEN user_input ELSE NoneText,
        !.conversation_history = history,
        !.start_time = now]

----------------------------------------------------------------------------
(* State updates shared by the nodes *)

AddStepInFront(s, now, msg) ==
    [s EXCEPT !.processing_steps = <<Step(now, msg)>> \o @]

\* state["processing_steps"].append(f"[{datetime.now()}] ...")
AddStep(s, now, msg) ==
    [s EXCEPT !.processing_steps = Append(@, Step(now, msg))]

AddError(s, m) == [s EXCEPT !.errors = Append(@, m)]

AddWarning(s, m) == [s EXCEPT !.warnings = Append(@, m)]

\* f"<what>: {str(e)}"
Msg(what, cause) == [what |-> what, cause |-> cause]

----------------------------------------------------------------------------
(* Agents: the message list handed to llm.ainvoke *)

\* SystemMessage / HumanMessage / AIMessage
LangMessage(type, content) == [type |-> type, content |-> content]

\* BaseAgent.create_messages: the system prompt, then every turn of the
\* history whose role is user or assistant, in the order the list has
CreateMessages(s) ==
    LET kept == SelectSeq(s.conversation_history,
                          LAMBDA m : m.role \in {"user", "assistant"})
    IN  <<LangMessage("system", Txt(<<"<system_prompt>">>))>>
        \o [i \in 1..Len(kept) |->
               LangMessage(IF kept[i].role = "user" THEN "human" ELSE "ai",
                           kept[i].content)]

\* the text of the HumanMessage the agent of node n appends
Prompt(n, s) ==
    CASE n = "analyze_code" ->
            Txt(<<"<quality_analysis_prompt>">>
                \o (IF Truthy(s.original_code) THEN s.original_code
                    ELSE s.user_input).chars)
      [] n = "explain_code" -> Txt(<<"<explain_prompt>">> \o s.user_input.chars)
      [] n = "solve_problem" -> Txt(<<"<solve_prompt>">> \o s.user_input.chars)
      [] OTHER -> s.user_input

\* messages = self.create_messages(state); messages.append(HumanMessage(...))
AgentMessages(n, s) == CreateMessages(s) \o <<LangMessage("human", Prompt(n, s))>>

----------------------------------------------------------------------------
(* Agents: what process() does once the awaited backend call has resolved. *)
(* content is response.content; a failed call raises inside the try.       *)

ExplainerOnSuccess(s, content, now) ==
    AddStep([s EXCEPT !.explanation_result = content, !.ai_response = content],
            now, "explain_done")

ExplainerOnFailureAsWarning(s) == AddWarning(s, Msg("explain_failed", "backend"))

ExplainerOnFailure(s) == AddError(s, Msg("explain_failed", "backend"))

Solution(title, code, explanation, difficulty, packages, filename) ==
    [title |-> title, code |-> code, explanation |-> explanation,
     difficulty |-> difficulty, packages |-> packages, filename |-> filename]

\* ProblemSolverAgent._parse_solutions
ParseSolutions(response, problem) ==
    << Solution(Txt(<<"<title1>">>),
                Txt(<<"<code1_head>">> \o Str(problem) \o <<"<code1_tail>">>),
                Txt(<<"<explanation1>">>), "basic",
                <<"base", "ggplot2">>, Txt(<<"basic_solution.R">>)),
       Solution(Txt(<<"<title2>">>), Txt(<<"<code2>">>),
                Txt(<<"<explanation2>">>), "intermediate",
                <<"dplyr", "ggplot2">>, Txt(<<"advanced_solution.R">>)),
       Solution(Txt(<<"<title3>">>), Txt(<<"<code3>">>),
                Txt(<<"<explanation3>">>), "advanced",
                <<"data.table", "plotly">>, Txt(<<"professional_solution.R">>)) >>

SolverOnSuccess(s, content, now) ==
    AddStep([s EXCEPT !.code_solutions = ParseSolutions(content, s.user_input),
                      !.ai_response = content],
            now, "solve_done")

SolverOnFailure(s) == AddError(s, Msg("solve_failed", "backend"))

\* CodeAnalyzerAgent._parse_analysis
ParseAnalysis(response) == [isNone |-> FALSE, analysis_result |-> response]

AnalyzerOnSuccess(s, content, now) ==
    AddStep([s EXCEPT !.code_analysis = ParseAnalysis(content)], now, "analysis_done")

AnalyzerOnFailureAsError(s) == AddError(s, Msg("analysis_failed", "backend"))

AnalyzerOnFailure(s) == AddWarning(s, Msg("analysis_failed", "backend"))

\* the "if not code" branch of CodeAnalyzerAgent.process
AnalyzerOnNoCode(s) == AddWarning(s, Msg("no_code_to_analyze", "input"))

ConversationOnFailureKeepingUserTurn(s, cause) ==
    AddError([s EXCEPT !.conversation_history =
                  Append(@, Turn("user", s.user_input, s.start_time))],
             Msg("conversation_failed", cause))

\* the except branch of ConversationAgent.process
ConversationOnFailure(s, cause) == AddError(s, Msg("conversation_failed", cause))

\* ConversationAgent.process after the call returned: ai_response is written
\* first; Message(role="assistant", content=None) then fails validation
\* inside the try, before the history is extended.
ConversationOnSuccess(s, content, now) ==
    LET s1 == [s EXCEPT !.ai_response =
                   IF Truthy(content) THEN content ELSE Txt(<<"<cannot_reply>">>)]
    IN  IF content.isNone
        THEN ConversationOnFailure(s1, "validation")
        ELSE AddStep([s1 EXCEPT !.conversation_history =
                         @ \o <<Turn("user", s.user_input, now),
                                Turn("assistant", content, now)>>],
                     now, "conversation_done")

----------------------------------------------------------------------------
(* Plain nodes *)

UpperCase ==
    <<"A", "B", "C", "D", "E", "F", "G", "H", "I", "J", "K", "L", "M",
      "N", "O", "P", "Q", "R", "S", "T", "U", "V", "W", "X", "Y", "Z">>

LowerCase ==
    <<"a", "b", "c", "d", "e", "f", "g", "h", "i", "j", "k", "l", "m",
      "n", "o", "p", "q", "r", "s", "t", "u", "v", "w", "x", "y", "z">>

\* str.lower(): a cased letter maps to its lower-case form, anything else
\* (a CJK character, written here by its pinyin) to itself
Lower(s) ==
    [i \in 1..Len(s) |->
        IF \E k \in 1..26 : UpperCase[k] = s[i]
        THEN LowerCase[CHOOSE k \in 1..26 : UpperCase[k] = s[i]]
        ELSE s[i]]

\* _analyze_problem_node: keyword classification
ProblemType(problem) ==
    LET p == Lower(problem.chars)
        AnyOf(kws) == \E k \in kws : HasSub(p, k)
    IN  IF AnyOf({<<"hua4", "tu2">>, <<"hui4", "tu2">>, <<"p", "l", "o", "t">>,
                <<"g", "r", "a", "p", "h">>})
        THEN "visualization"
        ELSE IF AnyOf({<<"tong3", "ji4">>, <<"fen1", "xi1">>,
                     <<"a", "n", "a", "l", "y", "s", "i", "s">>})
        THEN "statistics"
        ELSE IF AnyOf({<<"shu4", "ju4", "chu3", "li3">>, <<"qing1", "xi3">>,
                     <<"c", "l", "e", "a", "n">>})
        THEN "data_processing"
        ELSE "general"

RECURSIVE SolutionWarnings(_, _)
\* the warnings _validate_solutions_node appends for solutions i..n
SolutionWarnings(sols, i) ==
    IF i > Len(sols) THEN <<>>
    ELSE (IF TextLen(sols[i].code) < MinCodeLen
          THEN <<Msg("solution_code_too_short", i)>> ELSE <<>>)
         \o (IF sols[i].packages = <<>>
             THEN <<Msg("solution_without_packages", i)>> ELSE <<>>)
         \o SolutionWarnings(sols, i + 1)

FinalStatusWarningFirst(errors, warnings) ==
    IF warnings # <<>> THEN "warning"
    ELSE IF errors # <<>> THEN "error"
    ELSE "success"

\* _finalize_node: status from errors and warnings
FinalStatus(errors, warnings) ==
    IF errors # <<>> THEN "error"
    ELSE IF warnings # <<>> THEN "warning"
    ELSE "success"

\* _finalize_node
Finalize(s, now) ==
    LET s1 == AddStep(s, now, "finalize_start")
        s2 == IF s1.end_time = NoTime THEN [s1 EXCEPT !.end_time = now] ELSE s1
        s3 == IF s2.start_time # NoTime /\ s2.end_time # NoTime
              THEN [s2 EXCEPT !.processing_time = s2.end_time - s2.start_time]
              ELSE s2
        st == FinalStatus(s3.errors, s3.warnings)
        s4 == [s3 EXCEPT !.status = st, !.summary = st]
    IN  AddStep(s4, now, "finalize_done")

----------------------------------------------------------------------------
(* The node functions, as functions of the record they are given.  A node   *)
(* ends in one of three ways: it returns the record, it suspends in its     *)
(* agent's backend call, or an exception leaves it.                         *)

NodeResult(s, call, raised) == [state |-> s, call |-> call, raised |-> raised]

\* _analyze_code_node -> CodeAnalyzerAgent.process, up to the await
AnalyzeCodeBegin(s, now) ==
    LET s1 == AddStep(s, now, "analysis_start")
        code == IF Truthy(s1.original_code) THEN s1.original_code
                ELSE s1.user_input
    IN  IF ~Truthy(code) THEN NodeResult(AnalyzerOnNoCode(s1), FALSE, FALSE)
        ELSE NodeResult(s1, TRUE, FALSE)

\* _explain_code_node -> CodeExplainerAgent.process, up to the await
ExplainCodeBegin(s, now) ==
    LET s1 == AddStep(s, now, "explain_start")
    IN  IF ~Truthy(s1.user_input)
        THEN NodeResult(AddError(s1, Msg("no_code_to_explain", "input")),
                        FALSE, FALSE)
        ELSE NodeResult(s1, TRUE, FALSE)

\* _analyze_problem_node; problem.lower() raises when user_input is None
AnalyzeProblemBegin(s, now) ==
    LET s1 == AddStep(s, now, "problem_analysis_start")
    IN  IF s1.user_input.isNone THEN NodeResult(s1, FALSE, TRUE)
        ELSE NodeResult(AddStep([s1 EXCEPT !.problem_type =
                                    ProblemType(s1.user_input)],
                                now, "problem_analysis_done"),
                        FALSE, FALSE)

\* _solve_problem_node -> ProblemSolverAgent.process, up to the await
SolveProblemBegin(s, now) ==
    LET s1 == AddStep(s, now, "solve_start")
    IN  IF ~Truthy(s1.user_input)
        THEN NodeResult(AddError(s1, Msg("no_problem_to_solve", "input")),
                        FALSE, FALSE)
        ELSE NodeResult(s1, TRUE, FALSE)

ValidateSolutionsReordering(s, now) ==
    LET s1 == AddStep(s, now, "validation_start")
        n == Len(s1.code_solutions)
        s2 == [s1 EXCEPT !.warnings = @ \o SolutionWarnings(s1.code_solutions, 1),
                         !.code_solutions =
                             [i \in 1..n |-> s1.code_solutions[n + 1 - i]]]
    IN  NodeResult(AddStep(s2, now, "validation_done"), FALSE, FALSE)

\* _validate_solutions_node
ValidateSolutions(s, now) ==
    LET s1 == AddStep(s, now, "validation_start")
        s2 == [s1 EXCEPT !.warnings = @ \o SolutionWarnings(s1.code_solutions, 1)]
    IN  NodeResult(AddStep(s2, now, "validation_done"), FALSE, FALSE)

\* _conversation_node -> ConversationAgent.process, up to the await
ConversationBegin(s, now) ==
    LET s1 == AddStep(s, now, "conversation_start")
    IN  IF ~Truthy(s1.user_input)
        THEN NodeResult(AddError(s1, Msg("no_message", "input")), FALSE, FALSE)
        ELSE NodeResult(s1, TRUE, FALSE)

ContextEnhancementLenient(s, now) ==
    LET s1 == AddStep(s, now, "enhancement_start")
        s2 == IF Truthy(s1.ai_response)
                   /\ TextLen(s1.ai_response) < MinReplyLen - 1
              THEN AddWarning(s1, Msg("reply_short", "reply"))
              ELSE s1
    IN  NodeResult(AddStep(s2, now, "enhancement_done"), FALSE, FALSE)

\* _context_enhancement_node
ContextEnhancement(s, now) ==
    LET s1 == AddStep(s, now, "enhancement_start")
        s2 == IF Truthy(s1.ai_response) /\ TextLen(s1.ai_response) < MinReplyLen
              THEN AddWarning(s1, Msg("reply_short", "reply"))
              ELSE s1
    IN  NodeResult(AddStep(s2, now, "enhancement_done"), FALSE, FALSE)

\* the function add_node registered under the name n, applied to s
NodeBegin(n, s, now) ==
    CASE n = "analyze_code" -> AnalyzeCodeBegin(s, now)
      [] n = "explain_code" -> ExplainCodeBegin(s, now)
      [] n = "analyze_problem" -> AnalyzeProblemBegin(s, now)
      [] n = "solve_problem" -> SolveProblemBegin(s, now)
      [] n = "validate_solutions" -> ValidateSolutions(s, now)
      [] n = "conversation" -> ConversationBegin(s, now)
      [] n = "context_enhancement" -> ContextEnhancement(s, now)
      [] OTHER -> NodeResult(Finalize(s, now), FALSE, FALSE)

\* the agent of node n from its await on; r is how the call resolved
AgentResume(n, s, r, now) ==
    CASE n = "analyze_code" ->
            IF r.ok THEN AnalyzerOnSuccess(s, r.content, now)
            ELSE AnalyzerOnFailure(s)
      [] n = "explain_code" ->
            IF r.ok THEN ExplainerOnSuccess(s, r.content, now)
            ELSE ExplainerOnFailure(s)
      [] n = "solve_problem" ->
            IF r.ok THEN SolverOnSuccess(s, r.content, now)
            ELSE SolverOnFailure(s)
      [] OTHER ->
            IF r.ok THEN ConversationOnSuccess(s, r.content, now)
            ELSE ConversationOnFailure(s, "backend")

----------------------------------------------------------------------------
(* WorkflowEngine.execute_workflow *)

ExecuteWorkflowBuildingFirst(request_type, user_input, history) ==
    \E now \in Ticks :
        /\ clock' = now
        /\ state' = AddStep(InitialState(request_type, user_input, history, now),
                            now, "workflow_start")
        /\ built' = TRUE
        /\ IF request_type \notin workflows
           THEN /\ ret' = "raised" /\ pc' = "post" /\ node' = node
           ELSE /\ ret' = ret /\ pc' = "graph"
                /\ node' = NextNode(request_type, "START")
        /\ UNCHANGED <<stagesRun, raisedIn, calls, outstanding, callLog>>

ExecuteWorkflowRejectingEmpty(request_type, user_input, history) ==
    IF request_type \notin workflows \/ ~Truthy(user_input)
    THEN /\ ret' = "raised"
         /\ pc' = "post"
         /\ UNCHANGED <<state, built, node, stagesRun, raisedIn, calls,
                        outstanding, callLog, clock>>
    ELSE \E now \in Ticks :
         /\ clock' = now
         /\ state' = InitialState(request_type, user_input, history, now)
         /\ built' = TRUE
         /\ node' = NextNode(request_type, "START")
         /\ pc' = "graph"
         /\ UNCHANGED <<stagesRun, raisedIn, calls, outstanding, callLog, ret>>

\* execute_workflow up to the point where workflow.ainvoke starts the graph
ExecuteWorkflow(request_type, user_input, history) ==
    IF request_type \notin workflows
    THEN \* raise ValueError, before initial_state exists
         /\ ret' = "raised"
         /\ pc' = "post"
         /\ UNCHANGED <<state, built, node, stagesRun, raisedIn, calls,
                        outstanding, callLog, clock>>
    ELSE \E now \in Ticks :
         /\ clock' = now
         /\ state' = InitialState(request_type, user_input, history, now)
         /\ built' = TRUE
         /\ node' = NextNode(request_type, "START")
         /\ pc' = "graph"
         /\ UNCHANGED <<stagesRun, raisedIn, calls, outstanding, callLog, ret>>

\* the graph runtime moves on after node n returned its state
Advance(n) ==
    LET m == NextNode(state.request_type, n)
    IN  IF m = "END" THEN pc' = "post" /\ node' = n
        ELSE pc' = "graph" /\ node' = m

Enter(n) ==
    /\ pc = "graph"
    /\ node = n
    /\ stagesRun' = Append(stagesRun, n)
    /\ UNCHANGED callLog

\* the awaited call of node n resolves with outcome r
Resume(n, r) ==
    /\ pc = "await"
    /\ node = n
    /\ outstanding' = outstanding - 1
    /\ callLog' = Append(callLog, [node |-> n, ok |-> r.ok, content |-> r.content,
                                   messages |-> AgentMessages(n, state)])
    /\ UNCHANGED <<stagesRun, calls>>

IssueCallTwice ==
    /\ pc' = "await"
    /\ calls' = calls + 2
    /\ outstanding' = outstanding + 2
    /\ UNCHANGED node

\* the agent issues llm.ainvoke(messages) and suspends
IssueCall ==
    /\ pc' = "await"
    /\ calls' = calls + 1
    /\ outstanding' = outstanding + 1
    /\ UNCHANGED node

NoCall == UNCHANGED <<calls, outstanding>>

Outside == <<apiKey, req, built, raisedIn, availChecks, ret, svc, earlier,
             execs, lists, memory, alone, submitted, analysis>>

\* what the awaited call can produce: a failure (timeout, transport error,
\* rejected credential), or a response with some content
Outcomes ==
    {[ok |-> FALSE, content |-> NoneText]} \cup
    IF apiKey = "valid" THEN {[ok |-> TRUE, content |-> c] : c \in Replies}
    ELSE {}

----------------------------------------------------------------------------
(* Graph nodes *)

\* _analyze_code_node: the graph runs it and the agent suspends or returns
AnalyzeCodeNode ==
    /\ Enter("analyze_code")
    /\ \E now \in Ticks :
        /\ clock' = now
        /\ LET o == NodeBegin("analyze_code", state, now)
           IN  /\ state' = o.state
               /\ IF o.call THEN IssueCall
                  ELSE Advance("analyze_code") /\ NoCall
    /\ UNCHANGED Outside

\* the agent's process from the await on
AnalyzeCodeResume ==
    /\ \E now \in Ticks, r \in Outcomes :
        /\ Resume("analyze_code", r)
        /\ clock' = now
        /\ state' = AgentResume("analyze_code", state, r, now)
    /\ Advance("analyze_code")
    /\ UNCHANGED Outside

\* _explain_code_node
ExplainCodeNode ==
    /\ Enter("explain_code")
    /\ \E now \in Ticks :
        /\ clock' = now
        /\ LET o == NodeBegin("explain_code", state, now)
           IN  /\ state' = o.state
               /\ IF o.call THEN IssueCall
                  ELSE Advance("explain_code") /\ NoCall
    /\ UNCHANGED Outside

\* the agent's process from the await on
ExplainCodeResume ==
    /\ \E now \in Ticks, r \in Outcomes :
        /\ Resume("explain_code", r)
        /\ clock' = now
        /\ state' = AgentResume("explain_code", state, r, now)
    /\ Advance("explain_code")
    /\ UNCHANGED Outside

\* _analyze_problem_node: returns, or its exception leaves ainvoke
AnalyzeProblemNode ==
    /\ Enter("analyze_problem")
    /\ \E now \in Ticks :
        /\ clock' = now
        /\ LET o == NodeBegin("analyze_problem", state, now)
           IN  /\ state' = o.state
               /\ IF o.raised
                  THEN /\ raisedIn' = "analyze_problem"
                       /\ pc' = "post"
                       /\ UNCHANGED node
                  ELSE /\ Advance("analyze_problem")
                       /\ UNCHANGED raisedIn
    /\ NoCall
    /\ UNCHANGED <<apiKey, req, built, availChecks, ret, svc, earlier>>
    /\ UNCHANGED <<pairVars, analyzerVars>>

\* _solve_problem_node
SolveProblemNode ==
    /\ Enter("solve_problem")
    /\ \E now \in Ticks :
        /\ clock' = now
        /\ LET o == NodeBegin("solve_problem", state, now)
           IN  /\ state' = o.state
               /\ IF o.call THEN IssueCall
                  ELSE Advance("solve_problem") /\ NoCall
    /\ UNCHANGED Outside

\* the agent's process from the await on
SolveProblemResume ==
    /\ \E now \in Ticks, r \in Outcomes :
        /\ Resume("solve_problem", r)
        /\ clock' = now
        /\ state' = AgentResume("solve_problem", state, r, now)
    /\ Advance("solve_problem")
    /\ UNCHANGED Outside

\* _validate_solutions_node
ValidateSolutionsNode ==
    /\ Enter("validate_solutions")
    /\ \E now \in Ticks :
        /\ clock' = now
        /\ state' = NodeBegin("validate_solutions", state, now).state
    /\ Advance("validate_solutions")
    /\ NoCall
    /\ UNCHANGED Outside

\* _conversation_node
ConversationNode ==
    /\ Enter("conversation")
    /\ \E now \in Ticks :
        /\ clock' = now
        /\ LET o == NodeBegin("conversation", state, now)
           IN  /\ state' = o.state
               /\ IF o.call THEN IssueCall
                  ELSE Advance("conversation") /\ NoCall
    /\ UNCHANGED Outside

\* the agent's process from the await on
ConversationResume ==
    /\ \E now \in Ticks, r \in Outcomes :
        /\ Resume("conversation", r)
        /\ clock' = now
        /\ state' = AgentResume("conversation", state, r, now)
    /\ Advance("conversation")
    /\ UNCHANGED Outside

\* _context_enhancement_node
ContextEnhancementNode ==
    /\ Enter("context_enhancement")
    /\ \E now \in Ticks :
        /\ clock' = now
        /\ state' = NodeBegin("context_enhancement", state, now).state
    /\ Advance("context_enhancement")
    /\ NoCall
    /\ UNCHANGED Outside

\* _finalize_node
FinalizeNode ==
    /\ Enter("finalize")
    /\ \E now \in Ticks :
        /\ clock' = now
        /\ state' = NodeBegin("finalize", state, now).state
    /\ Advance("finalize")
    /\ NoCall
    /\ UNCHANGED Outside

----------------------------------------------------------------------------
(* LangGraphService *)

\* LangGraphService._check_api_availability
CheckApiAvailability == apiKey \notin {"missing", "placeholder"}

NoResult ==
    [kind |-> "none", success |-> FALSE, content |-> NoneText,
     demo_mode |-> FALSE, solutions |-> <<>>, warnings |-> <<>>,
     errors |-> <<>>]

\* raise AIServiceError(...)
ServiceError == [NoResult EXCEPT !.kind = "raised"]

\* the mode_or_files argument: a mode string, a list of files, or None
ModeArg(mode) == [isList |-> FALSE, files |-> <<>>, mode |-> mode]

FilesArg(files) == [isList |-> TRUE, files |-> files, mode |-> "None"]

UploadedFile == [filename |-> "data.csv", type |-> "csv", size |-> 1,
                 content |-> <<"c">>]

RECURSIVE FileInfoLines(_)
FileInfoLines(files) ==
    IF files = <<>> THEN <<>>
    ELSE <<"- ", Head(files).filename, Head(files).type, "<bytes>">>
         \o FileInfoLines(Tail(files))

\* the solutions list of the demo response for "solve"
DemoSolutions ==
    << Solution(Txt(<<"<demo_title1>">>), Txt(<<"<demo_code1>">>),
                Txt(<<"<demo_explanation1>">>), "chuji",
                <<"ggplot2">>, Txt(<<"mtcars_analysis.R">>)),
       Solution(Txt(<<"<demo_title2>">>), Txt(<<"<demo_code2>">>),
                Txt(<<"<demo_explanation2>">>), "zhongji",
                <<"dplyr", "corrplot">>, Txt(<<"comprehensive_analysis.R">>)),
       Solution(Txt(<<"<demo_title3>">>), Txt(<<"<demo_code3>">>),
                Txt(<<"<demo_explanation3>">>), "gaoji",
                <<"ggplot2", "gridExtra", "RColorBrewer", "plotly">>,
                Txt(<<"advanced_visualization.R">>)) >>

CreateDemoResponseCounting(request_type, user_input, mode_or_files) ==
    [NoResult EXCEPT
        !.kind = "response", !.success = TRUE, !.demo_mode = TRUE,
        !.content = Txt(<<"<demo>">> \o Str(user_input)
                        \o IF earlier.request.entry = "none" THEN <<>>
                           ELSE <<"<again>">>)]

CreateDemoResponseFailing(request_type, user_input, mode_or_files) ==
    [NoResult EXCEPT !.kind = "response", !.success = FALSE,
                     !.content = Txt(<<"<demo>">> \o Str(user_input)),
                     !.errors = <<Msg("backend_unavailable", "config")>>]

\* LangGraphService._create_demo_response; "<demo>" stands for the word the
\* source writes into every template to mark the text as a demonstration
CreateDemoResponse(request_type, user_input, mode_or_files) ==
    LET isList == mode_or_files.isList
        files == mode_or_files.files
        mode == IF isList THEN "full" ELSE mode_or_files.mode
        hasFiles == isList /\ files # <<>>
        file_info == IF isList
                     THEN <<"<file_count>">> \o FileInfoLines(files)
                     ELSE <<>>
        chat == <<"<assistant>", "<demo>", "<you_said>">> \o Str(user_input)
                \o <<"<demo_mode_notice>", "<setup_steps>">>
        explain == <<"<explain_feature>", "<demo>">>
                   \o (IF mode = "selected" THEN <<"<selected_title>">> ELSE <<>>)
                   \o <<"<your_code>">> \o Str(user_input)
                   \o <<"<demo_explanation>">>
                   \o (IF mode = "selected" THEN <<"<selected_note>">> ELSE <<>>)
                   \o <<"<setup_steps>">>
        solve == <<"<solve_feature>", "<demo>", "<your_problem>">>
                 \o Str(user_input) \o file_info \o <<"<demo_solution>">>
                 \o (IF hasFiles THEN <<"<file_based>">> ELSE <<>>)
                 \o <<"<setup_notice>">>
        analyze == <<"<analyze_feature>", "<demo>", "<your_code>">>
                   \o Str(user_input) \o <<"<demo_analysis>", "<setup_notice>">>
        content == CASE request_type = "chat" -> chat
                     [] request_type = "explain" -> explain
                     [] request_type = "solve" -> solve
                     [] request_type = "analyze" -> analyze
                     [] OTHER -> <<"<demo>", "<response>">> \o Str(user_input)
    IN  [NoResult EXCEPT
            !.kind = "response",
            !.content = Txt(content),
            !.success = TRUE,
            !.demo_mode = TRUE,
            !.solutions = IF request_type = "solve" THEN DemoSolutions ELSE <<>>]

\* LangGraphService._format_code_solutions
FormatCodeSolutions(solutions) ==
    [i \in 1..Len(solutions) |->
        Solution(solutions[i].title, solutions[i].code,
                 solutions[i].explanation, solutions[i].difficulty,
                 solutions[i].packages, solutions[i].filename)]

\* "a or b" on two Optional[str]
OrElse(a, b) == IF Truthy(a) THEN a ELSE b

\* explain_code after execute_workflow returned result
ExplainCodeResponse(result) ==
    IF result.status # "success" THEN ServiceError
    ELSE [NoResult EXCEPT
             !.kind = "response", !.success = TRUE,
             !.content = OrElse(result.explanation_result, result.ai_response),
             !.warnings = result.warnings, !.errors = result.errors]

\* solve_problem after execute_workflow returned result
SolveProblemResponse(result) ==
    IF result.status # "success" THEN ServiceError
    ELSE [NoResult EXCEPT
             !.kind = "response", !.success = TRUE,
             !.content = result.ai_response,
             !.solutions = FormatCodeSolutions(result.code_solutions),
             !.warnings = result.warnings, !.errors = result.errors]

\* chat after execute_workflow returned result
ChatResponse(result) ==
    IF result.status # "success" THEN ServiceError
    ELSE [NoResult EXCEPT
             !.kind = "response", !.success = TRUE,
             !.content = IF ~Truthy(result.ai_response)
                         THEN Txt(<<"<cannot_reply_now>">>)
                         ELSE result.ai_response,
             !.warnings = result.warnings, !.errors = result.errors]

\* analyze_code_quality after execute_workflow returned result;
\* result.get("code_analysis", {}) is None when the analyzer wrote nothing,
\* and None.get raises
AnalyzeCodeQualityResponse(result) ==
    IF result.code_analysis.isNone THEN ServiceError
    ELSE [NoResult EXCEPT
             !.kind = "response",
             !.success = (result.status = "success"),
             !.content = result.code_analysis.analysis_result]

\* the 'result' event a streaming view sends
StreamResult(result) ==
    [NoResult EXCEPT
        !.kind = "sse",
        !.success = (result.status = "success"),
        !.content = IF result.request_type = "explain"
                    THEN OrElse(result.explanation_result, result.ai_response)
                    ELSE result.ai_response,
        !.solutions = FormatCodeSolutions(result.code_solutions),
        !.warnings = result.warnings, !.errors = result.errors]

RECURSIVE FileBlocks(_)
FileBlocks(files) ==
    IF files = <<>> THEN <<>>
    ELSE <<"<file_header>", Head(files).filename>> \o Head(files).content
         \o FileBlocks(Tail(files))

\* solve_problem: file_context appended to the problem text
FileContext(files) ==
    IF files = <<>> THEN <<>>
    ELSE <<"<files_head>">> \o FileBlocks(files) \o <<"<use_files>">>

----------------------------------------------------------------------------
(* Entry points *)

NoArg == ModeArg("None")

NoReq == [entry |-> "none", request_type |-> "none", user_input |-> NoneText,
          mode_or_files |-> NoArg]

\* the call being served: the operation, the pipeline it selects, the text,
\* and the operation's mode / uploaded_files argument where it has one
Request(entry, request_type, user_input, mode_or_files) ==
    [entry |-> entry, request_type |-> request_type, user_input |-> user_input,
     mode_or_files |-> mode_or_files]

\* no demo response kept
NoEarlier == [request |-> NoReq, response |-> NoResult]

RequestTypes == workflows \cup {"analyze"}

Modes == {"full", "selected"}

FileLists == {<<>>, <<UploadedFile>>}

\* str.strip() of a request parameter
RECURSIVE StripLeft(_)
StripLeft(s) ==
    IF s # <<>> /\ Head(s) = " " THEN StripLeft(Tail(s)) ELSE s

RECURSIVE StripRight(_)
StripRight(s) ==
    IF s # <<>> /\ s[Len(s)] = " " THEN StripRight(SubSeq(s, 1, Len(s) - 1))
    ELSE s

Strip(t) == Txt(StripRight(StripLeft(t.chars)))

\* what a view can receive as its text parameter
ViewInputs == {Txt(<<>>), Txt(<<" ">>), Txt(<<"P", "l", "o", "t", " ">>)}

\* the demo branch of a service operation: no engine call at all
Demo(response) ==
    /\ svc' = response
    /\ pc' = "done"
    /\ UNCHANGED <<state, built, node, stagesRun, raisedIn, calls,
                   outstanding, callLog, ret, clock, earlier>>

\* a direct call of WorkflowEngine.execute_workflow
Execute ==
    /\ pc = "idle"
    /\ \E rt \in RequestTypes, ui \in Inputs, h \in Histories :
        /\ req' = Request("execute", rt, ui, NoArg)
        /\ ExecuteWorkflow(rt, ui, h)
    /\ UNCHANGED <<apiKey, availChecks, svc, earlier>>
    /\ UNCHANGED <<pairVars, analyzerVars>>

\* LangGraphService.explain_code
ExplainCode ==
    /\ pc = "idle"
    /\ availChecks' = availChecks + 1
    /\ \E code \in Inputs, mode \in Modes :
        /\ req' = Request("explain_code", "explain", code, ModeArg(mode))
        /\ IF ~CheckApiAvailability
           THEN Demo(CreateDemoResponse("explain", code, ModeArg(mode)))
           ELSE ExecuteWorkflow("explain", code, <<>>)
                /\ UNCHANGED <<svc, earlier>>
    /\ UNCHANGED apiKey
    /\ UNCHANGED <<pairVars, analyzerVars>>

\* LangGraphService.solve_problem; problem + file_context raises on None
SolveProblem ==
    /\ pc = "idle"
    /\ availChecks' = availChecks + 1
    /\ \E problem \in Inputs, files \in FileLists, given \in BOOLEAN :
        LET uploaded_files == IF given THEN FilesArg(files) ELSE NoArg
        IN  /\ req' = Request("solve_problem", "answer", problem, uploaded_files)
            /\ IF ~CheckApiAvailability
               THEN Demo(CreateDemoResponse("solve", problem, uploaded_files))
               ELSE IF problem.isNone
               THEN Demo(ServiceError)
               ELSE /\ ExecuteWorkflow("answer",
                           Txt(problem.chars \o
                               (IF given THEN FileContext(files) ELSE <<>>)),
                           <<>>)
                    /\ UNCHANGED <<svc, earlier>>
    /\ UNCHANGED apiKey
    /\ UNCHANGED <<pairVars, analyzerVars>>

\* LangGraphService._convert_history_to_messages
ConvertHistoryToMessages(history) ==
    [i \in 1..Len(history) |->
        Turn(history[i].role, history[i].content, clock)]

\* LangGraphService.chat
Chat ==
    /\ pc = "idle"
    /\ availChecks' = availChecks + 1
    /\ \E message \in Inputs, h \in Histories :
        /\ req' = Request("chat", "talk", message, NoArg)
        /\ IF ~CheckApiAvailability
           THEN Demo(CreateDemoResponse("chat", message, ModeArg("full")))
           ELSE /\ ExecuteWorkflow("talk", message, ConvertHistoryToMessages(h))
                /\ UNCHANGED <<svc, earlier>>
    /\ UNCHANGED apiKey
    /\ UNCHANGED <<pairVars, analyzerVars>>

\* the rows ConversationHistory holds for the session when a request arrives
StoredRows == {<<>>, Ascending(1), Ascending(MaxHistory)}

\* TalkView.post: once the user's message is stored, the HistoryWindow newest
\* rows of the session as role and content, reversed to oldest first
TalkViewHistory(rows, message) ==
    LET all == rows \o <<Turn("user", message, clock)>>
    IN  IF Len(all) <= HistoryWindow THEN all
        ELSE SubSeq(all, Len(all) - HistoryWindow + 1, Len(all))

\* TalkView.post: an empty message is answered with the form and an error
\* message; any other is stored and handed, with the history read back, to
\* LangGraphService.chat
TalkViewPost ==
    /\ pc = "idle"
    /\ \E raw \in ViewInputs, rows \in StoredRows :
        LET message == Strip(raw)
        IN  /\ req' = Request("talk_view", "talk", message, NoArg)
            /\ IF ~Truthy(message)
               THEN /\ Demo([NoResult EXCEPT !.kind = "form_error"])
                    /\ UNCHANGED availChecks
               ELSE /\ availChecks' = availChecks + 1
                    /\ IF ~CheckApiAvailability
                       THEN Demo(CreateDemoResponse("chat", message,
                                                    ModeArg("full")))
                       ELSE /\ ExecuteWorkflow("talk", message,
                                   ConvertHistoryToMessages(
                                       TalkViewHistory(rows, message)))
                            /\ UNCHANGED <<svc, earlier>>
    /\ UNCHANGED apiKey
    /\ UNCHANGED <<pairVars, analyzerVars>>

\* LangGraphService.analyze_code_quality
AnalyzeCodeQuality ==
    /\ pc = "idle"
    /\ availChecks' = availChecks + 1
    /\ \E code \in Inputs :
        /\ req' = Request("analyze_code_quality", "explain", code, NoArg)
        /\ IF ~CheckApiAvailability
           THEN Demo(CreateDemoResponse("analyze", code, ModeArg("full")))
           ELSE ExecuteWorkflow("explain", code, <<>>)
                /\ UNCHANGED <<svc, earlier>>
    /\ UNCHANGED apiKey
    /\ UNCHANGED <<pairVars, analyzerVars>>

\* StreamingExplainView / StreamingAnswerView / StreamingTalkView .post:
\* an empty parameter is answered with status 400, anything else goes to
\* execute_workflow
StreamingPost(entry, request_type) ==
    /\ pc = "idle"
    /\ \E raw \in ViewInputs :
        LET text == Strip(raw)
        IN  /\ req' = Request(entry, request_type, text, NoArg)
            /\ IF ~Truthy(text)
               THEN Demo([NoResult EXCEPT !.kind = "http400"])
               ELSE ExecuteWorkflow(request_type, text, <<>>)
                    /\ UNCHANGED <<svc, earlier>>
    /\ UNCHANGED <<apiKey, availChecks>>
    /\ UNCHANGED <<pairVars, analyzerVars>>

StreamingExplain == StreamingPost("stream_explain", "explain")

StreamingAnswer == StreamingPost("stream_answer", "answer")

StreamingTalk == StreamingPost("stream_talk", "talk")

----------------------------------------------------------------------------
(* execute_workflow after workflow.ainvoke, and the caller's use of it *)

\* the try branch: final_state["end_time"] = now, workflow_complete = True
AfterInvoke(s, now) == [s EXCEPT !.end_time = now, !.workflow_complete = TRUE]

OnExceptionSilent(s, now) == [s EXCEPT !.end_time = now]

\* the except branch: the error is appended to initial_state, end_time set
OnExceptionIn(s, now, where) ==
    [AddError(s, Msg("workflow_failed", where)) EXCEPT !.end_time = now]

OnException(s, now) == OnExceptionIn(s, now, raisedIn)

\* what the entry point hands to its caller
Respond(entry, result) ==
    CASE entry = "explain_code" -> ExplainCodeResponse(result)
      [] entry = "solve_problem" -> SolveProblemResponse(result)
      [] entry \in {"chat", "talk_view"} -> ChatResponse(result)
      [] entry = "analyze_code_quality" -> AnalyzeCodeQualityResponse(result)
      [] entry \in {"stream_explain", "stream_answer", "stream_talk"} ->
            StreamResult(result)
      [] OTHER -> NoResult

Return ==
    /\ pc = "post"
    /\ pc' = "done"
    /\ IF ret = "raised"
       THEN \* the ValueError reaches the caller
            /\ svc' = IF req.entry = "execute" THEN NoResult ELSE ServiceError
            /\ UNCHANGED <<state, ret, clock>>
       ELSE \E now \in Ticks :
            /\ clock' = now
            /\ state' = IF raisedIn = "none" THEN AfterInvoke(state, now)
                        ELSE OnException(state, now)
            /\ ret' = "record"
            /\ svc' = Respond(req.entry, state')
    /\ UNCHANGED <<apiKey, req, built, node, stagesRun, raisedIn, calls,
                   outstanding, callLog, availChecks, earlier>>
    /\ UNCHANGED <<pairVars, analyzerVars>>

\* the request is over; the record is dropped.  The caller may keep a demo
\* response it was given, to compare later ones with.
Reset ==
    /\ pc = "done"
    /\ pc' = "idle"
    /\ req' = NoReq
    /\ state' = BlankState
    /\ built' = FALSE
    /\ node' = "START"
    /\ stagesRun' = <<>>
    /\ raisedIn' = "none"
    /\ calls' = 0
    /\ outstanding' = 0
    /\ callLog' = <<>>
    /\ availChecks' = 0
    /\ clock' = 0
    /\ ret' = "none"
    /\ svc' = NoResult
    /\ earlier' \in {earlier} \cup
                    IF svc.demo_mode
                    THEN {[request |-> req, response |-> svc]}
                    ELSE {}
    /\ UNCHANGED apiKey
    /\ UNCHANGED <<pairVars, analyzerVars>>

----------------------------------------------------------------------------
(* Two execute_workflow calls in flight on the one WorkflowEngine.  They   *)
(* share the engine's MemorySaver, keyed by session_id, and whatever list  *)
(* objects their callers handed to both; everything else a call works on   *)
(* is built by execute_workflow for that call.  A step is a node, split at *)
(* the agent's await, as above.                                            *)

ExecIds == {1, 2}

SessionIds == {"s1", "s2"}

\* list objects the callers own, and the list "conversation_history or []"
\* creates for a call that was given none
CallerLists == {"L1", "L2"}

OwnList(e) == IF e = 1 THEN "own1" ELSE "own2"

ListIds == CallerLists \cup {OwnList(e) : e \in ExecIds}

ListsAtStart ==
    [l \in ListIds |->
        CASE l = "L1" -> <<PastTurn(1)>>
          [] l = "L2" -> <<PastTurn(2)>>
          [] OTHER -> <<>>]

\* the text each call is given, and the reply its backend call gets
PairInput(e) ==
    IF e = 1 THEN Txt(<<"P", "l", "o", "t">>) ELSE Txt(<<"c", "l", "e", "a", "n">>)

PairOutcomes(e) ==
    {[ok |-> FALSE, content |-> NoneText],
     [ok |-> TRUE, content |-> Txt(<<"<reply_at_limit>">> \o PairInput(e).chars)]}

\* with two calls in flight every step takes one tick of the clock
PairTicks == {IF clock < MaxClock THEN clock + 1 ELSE clock}

\* the first call runs in session s1; the second in the same or another one
PairSessions(e) == IF e = 1 THEN {"s1"} ELSE SessionIds

\* the history argument: None, or a list object of the caller's; the second
\* caller may hold the list the first was given, or one of its own
PairHistoryArgs(e) == IF e = 1 THEN {"None", "L1"} ELSE {"None", "L1", "L2"}

NoExec ==
    [pc |-> "idle", session_id |-> "none", history |-> "none",
     state |-> BlankState, node |-> "START", raisedIn |-> "none",
     ret |-> "none"]

\* the keys of WorkflowState that execute_workflow puts into initial_state
SuppliedKeys ==
    {"request_type", "user_input", "original_code", "problem_description",
     "conversation_history", "ai_response", "code_solutions",
     "explanation_result", "code_analysis", "processing_steps", "start_time",
     "end_time", "errors", "warnings", "workflow_complete"}

\* what the checkpointer saves of a record: the channels WorkflowState
\* declares, by value
Checkpoint(s) ==
    [k \in DOMAIN s |-> IF k \in SuppliedKeys THEN s[k] ELSE BlankState[k]]

\* workflow.ainvoke(initial_state, {thread_id: session_id}): the run starts
\* from the thread's saved state with every key of the input written over it
Overlay(saved, input) ==
    [k \in DOMAIN input |-> IF k \in SuppliedKeys THEN input[k] ELSE saved[k]]

\* the record call e works on: its conversation_history is the list object
\* the record refers to
View(e) ==
    [execs[e].state EXCEPT !.conversation_history = lists[execs[e].history]]

\* a record as kept in execs: the history lives in lists
Stored(s) == [s EXCEPT !.conversation_history = <<>>]

singleVars == <<apiKey, pc, req, state, built, node, stagesRun, raisedIn,
                calls, outstanding, callLog, availChecks, ret, svc, earlier,
                submitted, analysis>>

\* execute_workflow is called: initial_state is built and ainvoke starts
PairExecute ==
    \E e \in ExecIds, request_type \in workflows, now \in PairTicks :
      \E sid \in PairSessions(e), given \in PairHistoryArgs(e) :
        LET ref == IF given = "None" THEN OwnList(e) ELSE given
            initial == InitialState(request_type, PairInput(e), lists[ref], now)
            started == Overlay(memory[sid], initial)
        IN  /\ execs[e].pc = "idle"
            /\ clock' = now
            /\ execs' = [execs EXCEPT ![e] =
                             [NoExec EXCEPT !.pc = "graph",
                                            !.session_id = sid,
                                            !.history = ref,
                                            !.state = Stored(started),
                                            !.node = NextNode(request_type, "START")]]
            /\ lists' = [lists EXCEPT ![ref] = started.conversation_history]
            /\ memory' = [memory EXCEPT ![sid] = Checkpoint(started)]
            /\ alone' = [alone EXCEPT ![e] = initial]
            /\ UNCHANGED singleVars

\* the graph runtime of one call runs its next node
PairNode ==
    \E e \in ExecIds, now \in PairTicks :
        LET x == execs[e]
            o == NodeBegin(x.node, View(e), now)
            m == NextNode(x.state.request_type, x.node)
        IN  /\ x.pc = "graph"
            /\ clock' = now
            /\ execs' = [execs EXCEPT ![e] =
                   [x EXCEPT !.state = Stored(o.state),
                             !.pc = IF o.raised THEN "post"
                                    ELSE IF o.call THEN "await"
                                    ELSE IF m = "END" THEN "post" ELSE "graph",
                             !.raisedIn = IF o.raised THEN x.node ELSE @,
                             !.node = IF o.raised \/ o.call \/ m = "END"
                                      THEN @ ELSE m]]
            /\ lists' = [lists EXCEPT ![x.history] = o.state.conversation_history]
            /\ memory' = IF o.raised \/ o.call THEN memory
                         ELSE [memory EXCEPT ![x.session_id] = Checkpoint(o.state)]
            /\ alone' = [alone EXCEPT ![e] = NodeBegin(x.node, @, now).state]
            /\ UNCHANGED singleVars

\* the backend call of one call's agent resolves and the agent goes on
PairResume ==
    \E e \in ExecIds, now \in PairTicks :
        \E r \in PairOutcomes(e) :
            LET x == execs[e]
                s == AgentResume(x.node, View(e), r, now)
                m == NextNode(x.state.request_type, x.node)
            IN  /\ x.pc = "await"
                /\ clock' = now
                /\ execs' = [execs EXCEPT ![e] =
                       [x EXCEPT !.state = Stored(s),
                                 !.pc = IF m = "END" THEN "post" ELSE "graph",
                                 !.node = IF m = "END" THEN @ ELSE m]]
                /\ lists' = [lists EXCEPT ![x.history] = s.conversation_history]
                /\ memory' = [memory EXCEPT ![x.session_id] = Checkpoint(s)]
                /\ alone' = [alone EXCEPT ![e] = AgentResume(x.node, @, r, now)]
                /\ UNCHANGED singleVars

\* ainvoke is over: execute_workflow returns the record
PairReturn ==
    \E e \in ExecIds, now \in PairTicks :
        LET x == execs[e]
            after(s) == IF x.raisedIn = "none" THEN AfterInvoke(s, now)
                        ELSE OnExceptionIn(s, now, x.raisedIn)
        IN  /\ x.pc = "post"
            /\ clock' = now
            /\ execs' = [execs EXCEPT ![e] =
                   [x EXCEPT !.state = Stored(after(View(e))),
                             !.pc = "done", !.ret = "record"]]
            /\ alone' = [alone EXCEPT ![e] = after(@)]
            /\ UNCHANGED <<lists, memory>>
            /\ UNCHANGED singleVars

----------------------------------------------------------------------------
(* RCodeAnalyzer (services/code_analyzer.py).  The analysed text is a       *)
(* sequence of lexemes: a lexeme is the run of characters one of the        *)
(* analyzer's regular expressions reads as a unit, and each pattern is      *)
(* matched over the lexemes the way re matches it over the characters.      *)

\* '\n'
NL == "<nl>"

\* assigned names: lower snake case, mixed case, upper case
Identifiers == {"x", "myVar", "MAX"}

Keywords == {"function", "if", "for", "while", "repeat"}

\* runs of four digits or more, \d{4,}
LongNumbers == {"1234"}

\* lexemes made of word characters, \w+ : \b holds on both sides of them
Words == Identifiers \cup Keywords \cup LongNumbers

\* [a-zA-Z_][a-zA-Z0-9_]*
Names == Identifiers \cup Keywords

\* ^[a-z][a-z0-9_]*$
SnakeCase == {"x"} \cup Keywords

\* ^[A-Z][A-Z0-9_]*$
UpperSnakeCase == {"MAX"}

\* [\+\-\*\/\=]
Operators == {"+"}

\* runs of dots as long as the longest line that is not reported, and one
\* character longer
Fillers == {"<line_at_limit>", "<line_over_limit>"}

CodeAlphabet ==
    Words \cup Operators \cup Fillers
        \cup {NL, " ", "#", "{", "}", "(", "<-", "&&", "||"}

\* two lexemes of word characters side by side would be one lexeme
WellFormed(s) ==
    \A i \in 1..(Len(s) - 1) : ~(s[i] \in Words /\ s[i + 1] \in Words)

\* \s matches a blank and a line end
IsSpace(c) == c \in {" ", NL}

RECURSIVE SkipSpace(_, _)
\* \s* read from position i: the position of the first lexeme after it
SkipSpace(s, i) ==
    IF i <= Len(s) /\ IsSpace(s[i]) THEN SkipSpace(s, i + 1) ELSE i

RECURSIVE MatchFrom(_, _, _)
\* a pattern is a sequence of lexeme sets with \s* between them; the position
\* where its match that starts at i ends, 0 when there is none
MatchFrom(p, s, i) ==
    IF i > Len(s) \/ s[i] \notin Head(p) THEN 0
    ELSE IF Len(p) = 1 THEN i
    ELSE MatchFrom(Tail(p), s, SkipSpace(s, i + 1))

RECURSIVE FindAllFrom(_, _, _)
FindAllFrom(p, s, i) ==
    IF i > Len(s) THEN <<>>
    ELSE LET e == MatchFrom(p, s, i)
         IN  IF e = 0 THEN FindAllFrom(p, s, i + 1)
             ELSE <<s[i]>> \o FindAllFrom(p, s, e + 1)

\* re.findall: the matches left to right, none overlapping another; each is
\* given by its first lexeme, which is the group the naming patterns capture
FindAll(p, s) == FindAllFrom(p, s, 1)

RECURSIVE SplitLines(_)
\* code.split('\n')
SplitLines(s) ==
    IF \A i \in 1..Len(s) : s[i] # NL THEN <<s>>
    ELSE LET i == CHOOSE k \in 1..Len(s) :
                      s[k] = NL /\ \A j \in 1..(k - 1) : s[j] # NL
         IN  <<SubSeq(s, 1, i - 1)>> \o SplitLines(SubSeq(s, i + 1, Len(s)))

\* line.strip()
Stripped(line) == StripRight(StripLeft(line))

\* the branch of the loop of _calculate_metrics a line takes
LineKind(line) ==
    IF Stripped(line) = <<>> THEN "blank"
    ELSE IF Head(Stripped(line)) = "#" THEN "comment"
    ELSE "code"

CountLines(lines, kind) ==
    Cardinality({i \in 1..Len(lines) : LineKind(lines[i]) = kind})

\* r'\b\w+\s*<-\s*function\s*\('
FunctionPattern == <<Words, {"<-"}, {"function"}, {"("}>>

\* _calculate_metrics
CalculateMetrics(code) ==
    LET lines == SplitLines(code)
    IN  [lines_of_code     |-> CountLines(lines, "code"),
         comment_lines     |-> CountLines(lines, "comment"),
         blank_lines       |-> CountLines(lines, "blank"),
         functions_count   |-> Len(FindAll(FunctionPattern, code)),
         complexity_score  |-> 0,
         readability_score |-> 0]

QualityIssue(type, line, severity) ==
    [type |-> type, line |-> line, severity |-> severity]

\* the body of the loop of _detect_quality_issues for line number i
LineIssues(i, line) ==
    LET stripped == Stripped(line)
    IN  (IF SeqLen(line) > MaxLineLength
         THEN <<QualityIssue("line_length", i, "warning")>> ELSE <<>>)
        \o
        (IF \E k \in 1..(Len(stripped) - 2) :
                /\ stripped[k] \in Words
                /\ stripped[k + 1] \in Operators
                /\ stripped[k + 2] \in Words
         THEN <<QualityIssue("spacing", i, "style")>> ELSE <<>>)
        \o
        (IF /\ \E k \in 1..Len(stripped) : stripped[k] \in LongNumbers
            /\ Head(stripped) # "#"
         THEN <<QualityIssue("magic_number", i, "warning")>> ELSE <<>>)

RECURSIVE IssuesFrom(_, _)
IssuesFrom(lines, i) ==
    IF i > Len(lines) THEN <<>>
    ELSE LineIssues(i, lines[i]) \o IssuesFrom(lines, i + 1)

\* _detect_quality_issues; comment_lines / total_lines < 0.1 is compared
\* without the division
DetectQualityIssues(code) ==
    LET lines == SplitLines(code)
        total_lines == Len(lines) - CountLines(lines, "blank")
        comment_lines == CountLines(lines, "comment")
    IN  IssuesFrom(lines, 1)
        \o
        (IF total_lines > MinCommentedLines /\ 10 * comment_lines < total_lines
         THEN <<QualityIssue("lack_of_comments", 0, "warning")>> ELSE <<>>)

\* r'\b([a-zA-Z_][a-zA-Z0-9_]*)\s*<-'
VariablePattern == <<Names, {"<-"}>>

\* r'\b([a-zA-Z_][a-zA-Z0-9_]*)\s*<-\s*function'
FunctionNamePattern == <<Names, {"<-"}, {"function"}>>

StyleIssue(type, name) == [type |-> type, name |-> name, severity |-> "style"]

RECURSIVE NamingIssues(_, _, _)
\* one issue for each found name that is in none of the accepted styles
NamingIssues(type, found, accepted) ==
    IF found = <<>> THEN <<>>
    ELSE (IF Head(found) \in accepted THEN <<>>
          ELSE <<StyleIssue(type, Head(found))>>)
         \o NamingIssues(type, Tail(found), accepted)

\* _check_style
CheckStyle(code) ==
    NamingIssues("naming_convention", FindAll(VariablePattern, code),
                 SnakeCase \cup UpperSnakeCase)
    \o NamingIssues("function_naming", FindAll(FunctionNamePattern, code),
                    SnakeCase)

\* control_structures of _calculate_complexity
ControlStructures ==
    << <<{"if"}, {"("}>>, <<{"for"}, {"("}>>, <<{"while"}, {"("}>>,
       <<{"repeat"}, {"{"}>>, <<{"&&"}>>, <<{"||"}>> >>

RECURSIVE NestingFrom(_, _, _, _)
NestingFrom(code, i, current_depth, max_depth) ==
    IF i > Len(code) THEN max_depth
    ELSE IF code[i] = "{"
    THEN NestingFrom(code, i + 1, current_depth + 1,
                     IF current_depth + 1 > max_depth
                     THEN current_depth + 1 ELSE max_depth)
    ELSE IF code[i] = "}"
    THEN NestingFrom(code, i + 1,
                     IF current_depth > 0 THEN current_depth - 1 ELSE 0,
                     max_depth)
    ELSE NestingFrom(code, i + 1, current_depth, max_depth)

CalculateMaxNestingUnheld(code) ==
    LET Opened(k) == Cardinality({i \in 1..k : code[i] = "{"})
        Closed(k) == Cardinality({i \in 1..k : code[i] = "}"})
        Balances == {Opened(k) - Closed(k) : k \in 0..Len(code)}
    IN  CHOOSE m \in Balances : \A b \in Balances : b <= m

\* _calculate_max_nesting
CalculateMaxNesting(code) == NestingFrom(code, 1, 0, 0)

RECURSIVE CountMatches(_, _)
CountMatches(patterns, code) ==
    IF patterns = <<>> THEN 0
    ELSE Len(FindAll(Head(patterns), code))
         + CountMatches(Tail(patterns), code)

\* _calculate_complexity
CalculateComplexity(code) ==
    LET complexity == 1 + CountMatches(ControlStructures, code)
    IN  [cyclomatic_complexity |-> complexity,
         max_nesting_depth     |-> CalculateMaxNesting(code),
         complexity_level      |->
             IF complexity > HighComplexity THEN "high"
             ELSE IF complexity > MediumComplexity THEN "medium"
             ELSE "low"]

\* what one quality issue takes off the score
Deduction(issue) ==
    CASE issue.severity = "error"   -> 15
      [] issue.severity = "warning" -> 8
      [] issue.severity = "style"   -> 3
      [] OTHER                      -> 0

RECURSIVE Deductions(_)
Deductions(issues) ==
    IF issues = <<>> THEN 0
    ELSE Deduction(Head(issues)) + Deductions(Tail(issues))

\* base_score of _calculate_quality_score before the return statement;
\* comment_ratio > 0.2 and comment_ratio < 0.05 are compared without the
\* division
BaseScore(metrics, quality_issues, style_issues, complexity) ==
    100 - Deductions(quality_issues) - 2 * Len(style_issues)
        - (CASE complexity.complexity_level = "high"   -> 20
             [] complexity.complexity_level = "medium" -> 10
             [] OTHER                                  -> 0)
        + (IF metrics.lines_of_code > 0
           THEN LET lines == metrics.lines_of_code + metrics.comment_lines
                IN  IF 5 * metrics.comment_lines > lines THEN 5
                    ELSE IF 20 * metrics.comment_lines < lines THEN 0 - 10
                    ELSE 0
           ELSE 0)

Max(a, b) == IF a > b THEN a ELSE b

Min(a, b) == IF a < b THEN a ELSE b

CalculateQualityScoreUnclamped(metrics, quality_issues, style_issues, complexity) ==
    BaseScore(metrics, quality_issues, style_issues, complexity)

\* _calculate_quality_score
CalculateQualityScore(metrics, quality_issues, style_issues, complexity) ==
    Max(0, Min(100, BaseScore(metrics, quality_issues, style_issues,
                              complexity)))

\* the recommendations every analysis ends with
GeneralRecommendations ==
    <<"<add_comments>", "<descriptive_names>", "<error_handling>", "<dry>">>

\* _generate_recommendations
GenerateRecommendations(quality_issues, style_issues, complexity) ==
    (IF quality_issues # <<>> THEN <<"<fix_quality_issues>">> ELSE <<>>)
    \o (IF style_issues # <<>> THEN <<"<unify_style>">> ELSE <<>>)
    \o (IF complexity.complexity_level = "high"
        THEN <<"<refactor>">> ELSE <<>>)
    \o (IF complexity.max_nesting_depth > DeepNesting
        THEN <<"<reduce_nesting>">> ELSE <<>>)
    \o GeneralRecommendations

\* the dictionary of the except branch of analyze
AnalysisFailed == [kind |-> "error", error |-> "<analysis_failed>",
                   quality_score |-> 0]

\* the try block of analyze for a str
Analysis(code) ==
    LET metrics == CalculateMetrics(code)
        quality_issues == DetectQualityIssues(code)
        style_issues == CheckStyle(code)
        complexity == CalculateComplexity(code)
    IN  [kind            |-> "result",
         metrics         |-> metrics,
         quality_score   |-> CalculateQualityScore(metrics, quality_issues,
                                                   style_issues, complexity),
         quality_issues  |-> quality_issues,
         style_issues    |-> style_issues,
         complexity      |-> complexity,
         recommendations |-> GenerateRecommendations(quality_issues,
                                                     style_issues, complexity)]

\* code.split of something that is not a str raises AttributeError in
\* _calculate_metrics, the first statement of the try block
AnalyzeUncaught(t) ==
    IF t.isNone THEN [kind |-> "raised"] ELSE Analysis(t.chars)

\* RCodeAnalyzer.analyze
Analyze(t) ==
    IF t.isNone THEN AnalysisFailed ELSE Analysis(t.chars)

\* every text of at most n lexemes
ShortCodes(n) ==
    {s \in UNION {[1..k -> CodeAlphabet] : k \in 0..n} : WellFormed(s)}

RECURSIVE RepeatLine(_, _)
\* n lines, each the same
RepeatLine(line, n) ==
    IF n <= 1 THEN line ELSE line \o <<NL>> \o RepeatLine(line, n - 1)

\* lines that are counted, reported or both
SampleLines ==
    {<<"x">>, <<"#">>, <<"1234">>, <<"x", "+", "x">>, <<"<line_over_limit>">>,
     <<"myVar", "<-", "function", "(">>, <<"if", "(", "&&", "||">>,
     <<"{">>}

\* a commented text: one comment line ahead of n lines
Commented(line, n) == <<"#", NL>> \o RepeatLine(line, n)

\* one line of n logical operators
OperatorRun(n) == [i \in 1..n |-> IF i % 2 = 1 THEN "&&" ELSE "||"]

\* what analyze is called with
Codes ==
    {NoneText}
        \cup {Txt(s) : s \in ShortCodes(MaxCodeLen)}
        \cup {Txt(OperatorRun(n)) : n \in 0..MaxOperators}
        \cup {Txt(RepeatLine(l, n)) : l \in SampleLines, n \in 1..MaxLines}
        \cup {Txt(Commented(l, n)) : l \in SampleLines, n \in 1..MaxLines}

\* no analysis was asked for
NotAnalysed == [kind |-> "none"]

\* the call code_analyzer.analyze(code)
AnalyzeCall ==
    /\ analysis = NotAnalysed
    /\ analysis' = Analyze(submitted)
    /\ UNCHANGED submitted
    /\ UNCHANGED <<apiKey, pc, req, state, built, node, stagesRun, raisedIn,
                   calls, outstanding, callLog, availChecks, clock, ret, svc,
                   earlier>>
    /\ UNCHANGED pairVars

----------------------------------------------------------------------------
\* no request is being served
Quiet ==
    /\ pc = "idle"
    /\ req = NoReq
    /\ state = BlankState
    /\ built = FALSE
    /\ node = "START"
    /\ stagesRun = <<>>
    /\ raisedIn = "none"
    /\ calls = 0
    /\ outstanding = 0
    /\ callLog = <<>>
    /\ availChecks = 0
    /\ clock = 0
    /\ ret = "none"
    /\ svc = NoResult
    /\ earlier = NoEarlier
    /\ execs = [e \in ExecIds |-> NoExec]
    /\ lists = ListsAtStart
    /\ memory = [sid \in SessionIds |-> BlankState]
    /\ alone = [e \in ExecIds |-> BlankState]

\* the analyzer has not been called
NothingSubmitted ==
    /\ submitted = NoneText
    /\ analysis = NotAnalysed

PairInit == apiKey = "valid" /\ Quiet /\ NothingSubmitted

PairNext ==
    \/ PairExecute
    \/ PairNode
    \/ PairResume
    \/ PairReturn

PairSpec == PairInit /\ [][PairNext]_vars

\* analyze is about to be called with any of the texts
AnalyzerInit ==
    /\ apiKey = "valid"
    /\ Quiet
    /\ submitted \in Codes
    /\ analysis = NotAnalysed

AnalyzerNext == AnalyzeCall

AnalyzerSpec == AnalyzerInit /\ [][AnalyzerNext]_vars

Init == apiKey \in KeyStates /\ Quiet /\ NothingSubmitted

Next ==
    \/ Execute
    \/ ExplainCode
    \/ SolveProblem
    \/ Chat
    \/ TalkViewPost
    \/ AnalyzeCodeQuality
    \/ StreamingExplain
    \/ StreamingAnswer
    \/ StreamingTalk
    \/ AnalyzeCodeNode
    \/ AnalyzeCodeResume
    \/ ExplainCodeNode
    \/ ExplainCodeResume
    \/ AnalyzeProblemNode
    \/ SolveProblemNode
    \/ SolveProblemResume
    \/ ValidateSolutionsNode
    \/ ConversationNode
    \/ ConversationResume
    \/ ContextEnhancementNode
    \/ FinalizeNode
    \/ Return
    \/ Reset

Spec == Init /\ [][Next]_vars

----------------------------------------------------------------------------
(* Properties *)

Range(f) == {f[i] : i \in DOMAIN f}

Returned == ret = "record"

FinalizeRan == "finalize" \in Range(stagesRun)

ServiceEntries == {"explain_code", "solve_problem", "chat", "analyze_code_quality"}

StreamEntries == {"stream_explain", "stream_answer", "stream_talk"}

AgentNodes == {"analyze_code", "explain_code", "solve_problem", "conversation"}

\* the stage order each pipeline is documented to have
StageOrder ==
    [explain |-> <<"analyze_code", "explain_code", "finalize">>,
     answer  |-> <<"analyze_problem", "solve_problem", "validate_solutions",
                   "finalize">>,
     talk    |-> <<"conversation", "context_enhancement", "finalize">>]

IsPrefix(a, b) == Len(a) <= Len(b) /\ a = SubSeq(b, 1, Len(a))

\* C1: a record returned after Finalize ran has status 'error' exactly when
\* errors is non-empty, 'warning' exactly when errors is empty and warnings
\* is not, and 'success' otherwise, whichever pipeline ran.
C1_StatusMatchesDiagnostics ==
    (Returned /\ FinalizeRan) =>
        /\ state.status \in {"error", "warning", "success"}
        /\ state.status = "error" <=> state.errors # <<>>
        /\ state.status = "warning" <=>
               (state.errors = <<>> /\ state.warnings # <<>>)
        /\ state.status = "success" <=>
               (state.errors = <<>> /\ state.warnings = <<>>)

C1_Witness ==
    /\ pc = "done" /\ Returned /\ FinalizeRan
    /\ state.errors # <<>> /\ state.warnings # <<>>
    /\ state.status = "error"

\* C2 (as claimed): every record execute returns for a known request_type
\* has status set and processing_time computed, also when the orchestrator
\* caught a stage's exception.
C2_ReturnedRecordHasStatusAndTime ==
    Returned => (state.status # "unset" /\ state.processing_time # NoTime)

\* C3: an unknown request_type makes execute raise before any state exists:
\* no record, no stage, no backend call, nothing written.
C3_UnknownTypeRaisesBeforeState ==
    /\ (req.entry # "none" /\ req.request_type \notin workflows
            /\ pc \in {"post", "done"}) =>
          /\ ret = "raised"
          /\ ~built
          /\ state = BlankState
          /\ stagesRun = <<>>
          /\ calls = 0
    /\ ret = "raised" => req.request_type \notin workflows

C3_Witness ==
    pc = "done" /\ ret = "raised" /\ req.request_type = "analyze" /\ ~built

\* C4: when an exception escaped a stage, execute still returns the record:
\* the same record with one entry for the exception appended to errors and
\* end_time set; nothing is raised to the caller.
C4_StageExceptionIsCaught ==
    [][(pc = "post" /\ raisedIn # "none") =>
          /\ ret' = "record"
          /\ state'.errors = Append(state.errors, Msg("workflow_failed", raisedIn))
          /\ state'.end_time # NoTime
          /\ state' = [state EXCEPT !.errors = state'.errors,
                                    !.end_time = state'.end_time]]_vars

C4_Witness ==
    /\ pc = "done" /\ Returned /\ raisedIn = "analyze_problem"
    /\ Len(state.errors) = 1 /\ state.processing_steps # <<>>

\* C5: the stages of a pipeline are entered once each in the documented
\* order, and a run in which no exception escaped has entered all of them up
\* to Finalize when it returns, whatever errors or warnings were recorded on
\* the way.
C5_StagesRunInFixedOrder ==
    /\ built => IsPrefix(stagesRun, StageOrder[state.request_type])
    /\ (Returned /\ raisedIn = "none") =>
           stagesRun = StageOrder[state.request_type]

C5_Witness ==
    /\ pc = "done" /\ Returned /\ state.request_type = "answer"
    /\ stagesRun = StageOrder["answer"]
    /\ \E i \in DOMAIN state.errors : state.errors[i].what = "solve_failed"

\* C6: a failed backend call ends the agent's process normally (the graph
\* moves on, nothing escapes) with exactly one new entry: in errors for the
\* explainer, the solver and the conversationalist, in warnings and not in
\* errors for the analyzer.
C6_BackendFailureIsRecordedOnce ==
    [][(pc = "await" /\ Len(callLog') = Len(callLog) + 1
            /\ ~callLog'[Len(callLog')].ok) =>
          /\ raisedIn' = "none"
          /\ pc' \in {"graph", "post"}
          /\ IF node = "analyze_code"
             THEN /\ Len(state'.warnings) = Len(state.warnings) + 1
                  /\ IsPrefix(state.warnings, state'.warnings)
                  /\ state'.errors = state.errors
             ELSE /\ Len(state'.errors) = Len(state.errors) + 1
                  /\ IsPrefix(state.errors, state'.errors)
                  /\ state'.warnings = state.warnings]_vars

C6_Witness ==
    /\ callLog # <<>>
    /\ \E i \in DOMAIN callLog : callLog[i].node = "analyze_code" /\ ~callLog[i].ok
    /\ \E i \in DOMAIN callLog : callLog[i].node = "explain_code" /\ ~callLog[i].ok
    /\ Len(state.errors) = 1 /\ Len(state.warnings) = 1

\* the analysis stage ran and its call failed, or it issued no call at all
AnalyzerDegraded ==
    /\ "analyze_code" \in Range(stagesRun)
    /\ ~(pc = "await" /\ node = "analyze_code")
    /\ ~\E i \in DOMAIN callLog : callLog[i].node = "analyze_code" /\ callLog[i].ok

ExplainerSucceeded ==
    \E i \in DOMAIN callLog : callLog[i].node = "explain_code" /\ callLog[i].ok

\* C7: in the Explain pipeline a failed or skipped analysis followed by a
\* successful explanation ends with errors empty and status 'warning'.
C7_AnalysisFailureOnlyWarns ==
    (Returned /\ state.request_type = "explain" /\ FinalizeRan
        /\ AnalyzerDegraded /\ ExplainerSucceeded) =>
        (state.errors = <<>> /\ state.status = "warning")

C7_Witness ==
    /\ pc = "done" /\ Returned /\ state.request_type = "explain"
    /\ AnalyzerDegraded /\ ExplainerSucceeded /\ state.status = "warning"

\* the agent stages of a pipeline, in order
RECURSIVE AgentStages(_)
AgentStages(stages) ==
    IF stages = <<>> THEN <<>>
    ELSE (IF Head(stages) \in AgentNodes THEN <<Head(stages)>> ELSE <<>>)
         \o AgentStages(Tail(stages))

CallNodes == [i \in DOMAIN callLog |-> callLog[i].node]

\* C8 (as claimed): every agent stage issues exactly one backend call, the
\* next stage starts only once it resolved, and never is more than one call
\* outstanding.
C8_ExactlyOneCallPerAgentStage ==
    /\ outstanding <= 1
    /\ pc = "graph" => outstanding = 0
    /\ (Returned /\ raisedIn = "none") =>
           CallNodes = AgentStages(StageOrder[state.request_type])

\* C8 (amended): every agent stage issues at most one backend call, exactly
\* one when user_input is non-empty and none when it is empty or None; the
\* next stage starts only once the call resolved, and never is more than one
\* call outstanding.
C8_AtMostOneCallPerAgentStage ==
    /\ outstanding <= 1
    /\ calls = Len(callLog) + outstanding
    /\ pc \in {"graph", "post", "done"} => outstanding = 0
    /\ pc = "await" => (outstanding = 1 /\ node \in AgentNodes)
    /\ built => IsPrefix(CallNodes, AgentStages(StageOrder[state.request_type]))
    /\ (Returned /\ raisedIn = "none") =>
           CallNodes = IF Truthy(state.user_input)
                       THEN AgentStages(StageOrder[state.request_type])
                       ELSE <<>>

C8_Witness ==
    /\ pc = "done" /\ Returned /\ state.request_type = "explain"
    /\ Truthy(state.user_input)
    /\ CallNodes = <<"analyze_code", "explain_code">>

\* C9 (as claimed): with a missing or placeholder credential, every entry
\* path that runs a pipeline evaluates the availability predicate once
\* before the pipeline starts, and no agent attempts a backend call.
C9_NoCallWithoutCredential ==
    (/\ ~CheckApiAvailability
     /\ \/ req.entry \in ServiceEntries
        \/ req.entry \in StreamEntries /\ built) =>
        (availChecks = 1 /\ calls = 0)

HasDemoMarker(t) == ~t.isNone /\ "<demo>" \in Range(t.chars)

SolutionsOf(r) == Range(r)

\* title, code, explanation and filename of a Solution are non-empty
Filled(sol) ==
    /\ Truthy(sol.title) /\ Truthy(sol.code)
    /\ Truthy(sol.explanation) /\ Truthy(sol.filename)

\* C12 (as claimed): every run of the Solve pipeline on a real problem text,
\* live or demo, ends with at least one Solution, all of whose title, code,
\* explanation and filename are non-empty, also when the Solver's backend
\* call failed.
C12_SolveAlwaysYieldsSolutions ==
    /\ (Returned /\ state.request_type = "answer" /\ FinalizeRan
            /\ Truthy(state.user_input)) =>
           /\ Len(state.code_solutions) >= 1
           /\ \A sol \in SolutionsOf(state.code_solutions) : Filled(sol)
    /\ (pc = "done" /\ req.entry = "solve_problem" /\ svc.demo_mode) =>
           /\ Len(svc.solutions) >= 1
           /\ \A sol \in SolutionsOf(svc.solutions) : Filled(sol)

Difficulties == {"basic", "intermediate", "advanced"}

\* C13 (as claimed): every Solution of a Solve run has difficulty basic,
\* intermediate or advanced, in the record of a live run and in the
\* response of the demo path alike.
C13_DifficultyIsOneOfThree ==
    /\ \A sol \in SolutionsOf(state.code_solutions) :
           sol.difficulty \in Difficulties
    /\ \A sol \in SolutionsOf(svc.solutions) : sol.difficulty \in Difficulties

\* the turns of h, oldest first (turns of one instant keep their order)
ByTime(h) ==
    LET rank(i) == Cardinality({j \in DOMAIN h :
                        \/ h[j].timestamp < h[i].timestamp
                        \/ h[j].timestamp = h[i].timestamp /\ j < i}) + 1
    IN  [k \in 1..Len(h) |-> h[CHOOSE i \in DOMAIN h : rank(i) = k]]

\* the last n elements of s
LastN(s, n) == IF Len(s) <= n THEN s ELSE SubSeq(s, Len(s) - n + 1, Len(s))

\* the window of the conversation memory: the HistoryWindow most recent
\* turns of h, oldest first, as the messages they are sent as
WindowOf(h) ==
    LET w == LastN(ByTime(h), HistoryWindow)
    IN  [k \in 1..Len(w) |->
            LangMessage(IF w[k].role = "user" THEN "human" ELSE "ai",
                        w[k].content)]

\* what lies between the system prompt and the current message
HistoryPart(messages) == SubSeq(messages, 2, Len(messages) - 1)

\* C14 (as claimed): the message list the Conversationalist sends holds,
\* between the system prompt and the current message, exactly the
\* HistoryWindow most recent turns of the history it was given, oldest
\* first, whichever order the history was supplied in.
C14_AgentSendsTenMostRecentAscending ==
    [][(pc = "await" /\ node = "conversation"
            /\ Len(callLog') = Len(callLog) + 1) =>
          HistoryPart(callLog'[Len(callLog')].messages)
              = WindowOf(state.conversation_history)]_vars

\* the stage whose code writes the step message msg
StepStage(msg) ==
    CASE msg \in {"analysis_start", "analysis_done"} -> "analyze_code"
      [] msg \in {"explain_start", "explain_done"} -> "explain_code"
      [] msg \in {"problem_analysis_start", "problem_analysis_done"} ->
            "analyze_problem"
      [] msg \in {"solve_start", "solve_done"} -> "solve_problem"
      [] msg \in {"validation_start", "validation_done"} -> "validate_solutions"
      [] msg \in {"conversation_start", "conversation_done"} -> "conversation"
      [] msg \in {"enhancement_start", "enhancement_done"} ->
            "context_enhancement"
      [] msg \in {"finalize_start", "finalize_done"} -> "finalize"
      [] OTHER -> "none"

NonDecreasing(steps) ==
    \A i, j \in DOMAIN steps : i <= j => steps[i].ts <= steps[j].ts

\* C15: for each of the three pipelines, the record execute returns for a
\* non-empty input has its processing_steps in non-decreasing timestamp order
\* with at least one entry written by every stage of the pipeline, also by
\* a stage whose backend call failed.
C15_StepsOrderedAndOnePerStage ==
    (Returned /\ Truthy(state.user_input)) =>
        /\ NonDecreasing(state.processing_steps)
        /\ \A n \in Range(StageOrder[state.request_type]) :
               \E i \in DOMAIN state.processing_steps :
                   StepStage(state.processing_steps[i].msg) = n

C15_Witness ==
    /\ pc = "done" /\ Returned /\ state.request_type = "answer"
    /\ Truthy(state.user_input)
    /\ \E i \in DOMAIN callLog : callLog[i].node = "solve_problem" /\ ~callLog[i].ok
    /\ state.processing_steps[1].ts
           < state.processing_steps[Len(state.processing_steps)].ts

\* C16: while a record exists its conversation history only grows at the
\* end: a Converse stage whose call resolved and which recorded no error
\* appends exactly two Turns, a user Turn holding the current input and then
\* an assistant Turn, and leaves the earlier Turns as they were; a failed
\* Converse stage and every other step leave the history unchanged.
C16_HistoryIsAppendOnly ==
    [][(built /\ built') =>
          IF pc = "await" /\ node = "conversation" /\ state'.errors = state.errors
          THEN LET old == state.conversation_history
                   new == state'.conversation_history
               IN  /\ Len(new) = Len(old) + 2
                   /\ SubSeq(new, 1, Len(old)) = old
                   /\ new[Len(old) + 1].role = "user"
                   /\ new[Len(old) + 1].content = state.user_input
                   /\ new[Len(old) + 2].role = "assistant"
          ELSE state'.conversation_history = state.conversation_history]_vars

C16_Witness ==
    /\ pc = "done" /\ Returned /\ state.request_type = "talk"
    /\ state.errors = <<>>
    /\ Len(state.conversation_history) = MaxHistory + 2
    /\ SubSeq(state.conversation_history, 1, MaxHistory) = Descending(MaxHistory)
    /\ state.conversation_history[MaxHistory + 1].content = state.user_input
    /\ state.conversation_history[MaxHistory + 2].role = "assistant"

C18_WarningStillDeliversContent ==
    (/\ pc = "done" /\ Returned
     /\ req.entry \in {"explain_code", "solve_problem", "chat"}
     /\ state.status = "warning") =>
        /\ svc.kind = "response"
        /\ svc.content = IF req.entry = "explain_code"
                         THEN OrElse(state.explanation_result, state.ai_response)
                         ELSE state.ai_response
        /\ svc.warnings = state.warnings

\* C19 (as claimed): however two execute calls interleave, and whether or
\* not they share a session_id, the record each call works on and returns
\* is the record that call builds when it runs by itself: nothing the other
\* call wrote is in its errors, warnings, processing_steps, history or
\* output fields, and the history it was given is changed by nobody else.
C19_CallsAreIsolated ==
    \A e \in ExecIds : execs[e].pc # "idle" => View(e) = alone[e]

\* C20: analyze never raises.  Whatever it is called with, it returns either
\* an analysis whose quality_score lies between 0 and 100, or, when a step
\* inside it fails, the dictionary with an error message and quality_score 0;
\* for the empty text it returns an analysis, so a score between 0 and 100.
C20_AnalyzeNeverRaises ==
    analysis.kind # "none" =>
        /\ analysis.kind \in {"result", "error"}
        /\ analysis.kind = "result" => analysis.quality_score \in 0..100
        /\ analysis.kind = "error" =>
               /\ analysis.quality_score = 0
               /\ analysis.error = "<analysis_failed>"
        /\ submitted = Txt(<<>>) =>
               /\ analysis.kind = "result"
               /\ analysis.quality_score \in 0..100

\* a step inside analyze failed and the caller got the error dictionary
C20_Witness ==
    /\ submitted = NoneText
    /\ analysis.kind = "error"
    /\ analysis.quality_score = 0

\* C21 (as claimed): when the backend call of an agent fails, a response
\* whose content is missing included, process leaves ai_response,
\* explanation_result, code_solutions, code_analysis and conversation_history
\* as they were before the call.
C21_FailedCallLeavesOutputs ==
    [][(pc = "await" /\ Len(callLog') = Len(callLog) + 1
            /\ (~callLog'[Len(callLog')].ok
                    \/ callLog'[Len(callLog')].content.isNone)) =>
          /\ state'.ai_response = state.ai_response
          /\ state'.explanation_result = state.explanation_result
          /\ state'.code_solutions = state.code_solutions
          /\ state'.code_analysis = state.code_analysis
          /\ state'.conversation_history = state.conversation_history]_vars

\* the warnings the validation owes one solution: one for a code shorter than
\* MinCodeLen characters, one for an empty list of packages
WarningsOwed(sol) ==
    (IF TextLen(sol.code) < MinCodeLen THEN 1 ELSE 0)
        + (IF sol.packages = <<>> THEN 1 ELSE 0)

RECURSIVE TotalOwed(_)
TotalOwed(sols) ==
    IF sols = <<>> THEN 0 ELSE WarningsOwed(Head(sols)) + TotalOwed(Tail(sols))

ReplyGenerated ==
    /\ callLog # <<>>
    /\ callLog[Len(callLog)].node = "conversation"
    /\ callLog[Len(callLog)].ok

\* C23: the context enhancement stage appends exactly one warning whenever
\* the reply the Converse stage got is shorter than 50 characters; it never
\* changes ai_response, issues no backend call, and hands over to the final
\* stage, so the Converse stage is not run again.
C23_ShortReplyWarnsOnce ==
    [][(pc = "graph" /\ node = "context_enhancement"
            /\ stagesRun' = Append(stagesRun, "context_enhancement")) =>
          /\ state'.ai_response = state.ai_response
          /\ calls' = calls /\ outstanding' = outstanding /\ callLog' = callLog
          /\ pc' = "graph" /\ node' = "finalize"
          /\ Cardinality({i \in DOMAIN stagesRun' :
                              stagesRun'[i] = "conversation"}) = 1
          /\ (ReplyGenerated
                  /\ TextLen(callLog[Len(callLog)].content) < MinReplyLen) =>
                 /\ Len(state'.warnings) = Len(state.warnings) + 1
                 /\ IsPrefix(state.warnings, state'.warnings)
                 /\ state'.warnings[Len(state'.warnings)].what = "reply_short"]_vars

\* the enhancement ran on a reply one character below the limit and warned
C23_Witness ==
    /\ built /\ state.request_type = "talk"
    /\ stagesRun = <<"conversation", "context_enhancement">>
    /\ ReplyGenerated
    /\ callLog[Len(callLog)].content = Txt(<<"<reply_below_limit>">>)
    /\ state.ai_response = Txt(<<"<reply_below_limit>">>)
    /\ Len(state.warnings) = 1

\* C24 (as claimed): in every record execute returns after the final stage
\* ran, processing_time is that record's end_time minus its start_time, and
\* an end_time that is set once the final stage has run is not overwritten
\* later.
C24_ProcessingTimeMatchesEndTime ==
    [][/\ (pc' = "done" /\ Returned' /\ FinalizeRan') =>
              state'.processing_time = state'.end_time - state'.start_time
       /\ (built /\ built' /\ FinalizeRan /\ state.end_time # NoTime) =>
              state'.end_time = state.end_time]_vars

\* C25 (as claimed): for the cyclomatic value c analyze computes,
\* complexity_level is 'low' when c < 10, 'medium' when 10 <= c <= 20 and
\* 'high' when c > 20.
C25_ComplexityLevelThresholds ==
    analysis.kind = "result" =>
        LET c == analysis.complexity.cyclomatic_complexity
        IN  analysis.complexity.complexity_level =
                IF c < 10 THEN "low" ELSE IF c <= 20 THEN "medium" ELSE "high"

\* how many of the quality issues have the given severity
IssuesOf(a, severity) ==
    Cardinality({i \in DOMAIN a.quality_issues :
                    a.quality_issues[i].severity = severity})

\* the score as the claim of C26 computes it from the parts of an analysis;
\* the comment ratio is comment lines over non-blank lines, compared with
\* 0.20 and 0.05 without the division, and counts for nothing when there is
\* no non-blank line
ClaimedScore(a) ==
    LET nonblank == a.metrics.lines_of_code + a.metrics.comment_lines
        comments == a.metrics.comment_lines
        raw == 100 - 15 * IssuesOf(a, "error") - 8 * IssuesOf(a, "warning")
                   - 3 * IssuesOf(a, "style") - 2 * Len(a.style_issues)
                   - (IF a.complexity.complexity_level = "high" THEN 20
                      ELSE IF a.complexity.complexity_level = "medium" THEN 10
                      ELSE 0)
                   + (IF nonblank > 0 /\ 5 * comments > nonblank THEN 5
                      ELSE IF nonblank > 0 /\ 20 * comments < nonblank THEN 0 - 10
                      ELSE 0)
    IN  IF raw < 0 THEN 0 ELSE IF raw > 100 THEN 100 ELSE raw

\* C26 (as claimed): whenever analyze succeeds, quality_score is 100, minus 15
\* for each quality issue of severity error, 8 for each warning and 3 for each
\* style one, minus 2 for each entry of the style issues, minus 20 for a high
\* complexity or 10 for a medium one, plus 5 when the comment ratio (comment
\* lines over non-blank lines) is above 0.20 or minus 10 when it is below
\* 0.05, clamped to [0, 100].
C26_QualityScoreFormula ==
    analysis.kind = "result" => analysis.quality_score = ClaimedScore(analysis)

RECURSIVE Balance(_)
\* the running balance after the characters of s: one up on an opening
\* brace, one down on a closing brace unless it is zero already
Balance(s) ==
    IF s = <<>> THEN 0
    ELSE LET before == Balance(SubSeq(s, 1, Len(s) - 1))
             last == s[Len(s)]
         IN  IF last = "{" THEN before + 1
             ELSE IF last = "}" /\ before > 0 THEN before - 1
             ELSE before

\* C27: max_nesting_depth is the largest running balance over the prefixes of
\* the text, the balance going one up on '{' and one down on '}' but staying
\* at zero instead of going negative; no balance is below zero and
\* max_nesting_depth is below none of them.
C27_MaxNestingIsLargestBalance ==
    (analysis.kind = "result" /\ ~submitted.isNone) =>
        LET code == submitted.chars
            depth == analysis.complexity.max_nesting_depth
            Prefixes == {SubSeq(code, 1, k) : k \in 0..Len(code)}
        IN  /\ \A p \in Prefixes : Balance(p) >= 0 /\ depth >= Balance(p)
            /\ \E p \in Prefixes : depth = Balance(p)

\* a closing brace came first: the balance was held at zero and the two
\* opening braces after it count in full
C27_Witness ==
    /\ submitted = Txt(<<"}", "{", "{">>)
    /\ analysis.kind = "result"
    /\ analysis.complexity.max_nesting_depth = 2

\* the names the text assigns to, one entry for each assignment, whether the
\* right-hand side is a function or not
Assigned(code) == FindAll(VariablePattern, code)

\* C28 (as claimed): analyze reports exactly one style issue for each
\* assigned name that is neither lower snake case nor all capitals, and none
\* for a name that is lower snake case or all capitals, whether it names a
\* variable or a function.
C28_OneStyleIssuePerBadName ==
    (analysis.kind = "result" /\ ~submitted.isNone) =>
        LET names == Assigned(submitted.chars)
            Bad == {i \in DOMAIN names :
                       names[i] \notin SnakeCase \cup UpperSnakeCase}
        IN  /\ Len(analysis.style_issues) = Cardinality(Bad)
            /\ \A k \in DOMAIN analysis.style_issues :
                   analysis.style_issues[k].name
                       \notin SnakeCase \cup UpperSnakeCase

\* C29 (as claimed): in every talk request the message list sent to the
\* backend starts with the system instruction, ends with the current user
\* message, and holds that message nowhere else: the history turns between
\* them do not contain it, whichever view built the history.
C29_CurrentMessageSentOnce ==
    [][(pc = "await" /\ node = "conversation"
            /\ Len(callLog') = Len(callLog) + 1) =>
          LET sent == callLog'[Len(callLog')].messages
              current == LangMessage("human", state.user_input)
          IN  /\ sent[1].type = "system"
              /\ sent[Len(sent)] = current
              /\ Cardinality({i \in DOMAIN sent : sent[i] = current}) = 1]_vars

\* C30 (as claimed): after every Converse stage that succeeded, the assistant
\* Turn it appended to conversation_history has the record's ai_response as
\* its content, an empty reply of the backend included.
C30_AssistantTurnIsAiResponse ==
    [][(pc = "await" /\ node = "conversation"
            /\ Len(callLog') = Len(callLog) + 1
            /\ state'.errors = state.errors) =>
          LET h == state'.conversation_history
          IN  /\ Len(h) = Len(state.conversation_history) + 2
              /\ h[Len(h)].role = "assistant"
              /\ h[Len(h)].content = state'.ai_response]_vars

====
